---- MODULE Spec2Model ----
(***************************************************************************)
(* A model of the Codex bridge of the Sublime Text plug-in:                *)
(*   plugin/bridge_manager.py  the window -> bridge registry               *)
(*   plugin/codex_bridge.py    the subprocess bridge (send, reader thread, *)
(*                             terminate, kill_process_tree)               *)
(*   plugin/lifecycle.py       close listener, watchdog, load / unload     *)
(*   plugin/commands.py        submit, approval quick panel, reset         *)
(*                                                                         *)
(* Handlers of the host's main thread are atomic with respect to each      *)
(* other; the reader threads and the subprocesses interleave with them,    *)
(* also between the two halves of send().                                  *)
(*                                                                         *)
(* Spec      the registry and its lifecycle, for every key                 *)
(* SpecLive  Spec with the host running its timers (fairness)              *)
(* SpecChan  the channel of one window: requests, replies, callbacks,      *)
(*           approvals and reset                                           *)
(* SpecKill  terminate() and kill_process_tree() against a process table   *)
(***************************************************************************)
EXTENDS Integers, Sequences, FiniteSets, TLC

\* ------------------------------------------------------------------ bounds
MaxBridges == 3      \* bridge constructions that spawn a subprocess
MaxSends == 1        \* user_input requests (fresh uuid4 ids 1..MaxSends)
MaxLines == 2        \* lines emitted by all subprocesses together

\* ------------------------------------------------------------- vocabulary
GlobalKey == 0                       \* the key '__global__'
Windows == {1, 2}                    \* window.id() of the host's windows
Keys == {GlobalKey} \cup Windows
NoBridge == 0                        \* a registry slot with no bridge / "raised"
BridgeIds == 1..MaxBridges           \* the bridge objects, in construction order
SessionId == 0                       \* the id of configure_session (cfg_id)
NoType == "none"                     \* msg.get('type') is None
\* mutants of TerminalTypes: 'agent_message' forgotten; 'agent_reasoning' added
TerminalTypes_OnlyAssistant == {"assistant_message"}
TerminalTypes_WithReasoning ==
    {"assistant_message", "agent_message", "agent_reasoning"}
TerminalTypes == {"assistant_message", "agent_message"}
Types == {"assistant_message", "agent_message", "agent_reasoning",
          "exec_approval_request", NoType}
\* the types the subprocess gives an event with id `id`: session_configured
\* answers configure_session, the others a user_input
TypesOf(id) == IF id = SessionId THEN {"session_configured"} ELSE Types
\* an output line <<id, type, shape>>. shape "json": raw[raw.find('{'):] parses
\* as an object with that id and msg type, its msg an object (or absent) and
\* its id hashable; "no_brace": the line has no '{'; "bad_json": the text from
\* the first '{' does not parse; "bad_shape": it parses as an object whose msg
\* is null or no object (msg.get raises AttributeError, line 231) or whose id
\* is a list or an object (`call_id in self._callbacks` raises TypeError, line
\* 233). Lines of the last three shapes carry no id and no type.
NoId == -1
Shapes == {"json", "no_brace", "bad_json", "bad_shape"}
Idle == <<0, 0, 0>>                  \* the main thread is not inside send()
\* what the constructor finds in the settings: a token and a usable
\* 'permissions' value; no token (raises before Popen); or a 'permissions'
\* value that is neither a str nor a list (TypeError in _configure_session,
\* after Popen and after the reader thread was started); or a codex_path
\* whose program exits at once, before the constructor writes to it
Settings == {"ok", "no_token", "bad_permissions", "exits_at_start"}

VARIABLES
    settings,     \* the host's settings as the constructor will find them
    hasProject,   \* hasProject[w]: window.project_data() is not None
    phase,        \* "init", "loaded" (after plugin_loaded), "unloaded"
    tickPending,  \* watchdog timers scheduled with sublime.set_timeout
    live,         \* {w.id() for w in sublime.windows()}
    bridges,      \* bridge_manager.bridges: key -> bridge (NoBridge: absent)
    nextBridge,   \* the next bridge object / subprocess to be created
    proc,         \* proc[b]: "none", "running", "exited" (self.proc.poll())
    reader,       \* reader[b]: "none", "running", "done"  (self._reader)
    callbacks,    \* callbacks[b]: self._callbacks as a set of <<id, window>>
    stdin,        \* stdin[b]: the lines written to the subprocess
    stdout,       \* stdout[b]: lines the subprocess wrote, not yet read
    terminated,   \* terminated[b]: calls of b.terminate()
    timeouts,     \* callbacks scheduled with sublime.set_timeout(..., 0)
    panels,       \* open approval quick panels <<window, event id>>
    mainPc,       \* Idle, or <<b, id, window>>: send() wrote, cb not yet stored
    nextMsg,      \* the next fresh request id
    emitted,      \* lines emitted so far (bounded by MaxLines)
    resetPending, \* resetPending[w]: w was reset and no prompt submitted since
    last,         \* the operation that made the last step
    hist,         \* history: the dispatches of the readers, the callbacks run
    lock,         \* lock[b]: self._lock of bridge b is held
    snd,          \* the send() the main thread is in, followed step by step
    ptab,         \* the process table: ptab[pid] = [st, ppid, pgid]
    tcall,        \* which kill_process_tree call terminate() is in
    tpc,          \* the position of terminate() inside that call
    todo,         \* kill_process_tree: descendants not yet signalled
    sigs,         \* the signals this terminate() has issued, in order
    reaped,       \* self.proc.returncode is set: poll() or wait() saw the exit
    denied,       \* the kernel refuses the host's signals to the tree (EPERM)
    tcalls,       \* calls of terminate() on the bridge so far
    pdata,        \* pdata[w]: settings.codex.session_id in w's project data
    session,      \* session[b]: self._session_id of bridge b
    nextSess,     \* the next uuid4 (NoUuid: session ids are not followed)
    thr,          \* thr[t]: the send() that thread t is in, step by step
    pipe          \* what those sends wrote to the subprocess, in pieces

vars == <<settings, hasProject, phase, tickPending, live, bridges, nextBridge, proc, reader, callbacks,
          stdin, stdout, terminated, timeouts, panels, mainPc, nextMsg,
          emitted, resetPending, last, hist, lock, snd, ptab, tcall, tpc,
          todo, sigs, reaped, denied, tcalls, pdata, session, nextSess,
          thr, pipe>>

\* the variables of terminate() and kill_process_tree()
killVars == <<ptab, tcall, tpc, todo, sigs, reaped, denied, tcalls>>

\* the variables of the session ids
sessVars == <<pdata, session, nextSess>>

\* the variables of the sends of several threads
concVars == <<thr, pipe>>

\* `last` is a history variable: the handler that made the last step and the
\* key it was called with; steps of the subprocesses and reader threads are
\* recorded as "async". A specification that starts with last = Off keeps no
\* history.
Off == [op |-> "off", key |-> 0, ret |-> ""]
Op(name, key, ret) ==
    IF last = Off THEN Off ELSE [op |-> name, key |-> key, ret |-> ret]
Async == Op("async", 0, "")
\* hist.read: the lines the readers took, in order, as <<bridge, id, type,
\* window, shape>>, window being that of the callback found (NoWindow: none,
\* nothing scheduled); hist.run: the <<bridge, id, type, window>> whose
\* callback was run, with the thread that ran it. Kept only by a
\* specification that keeps history.
NoWindow == 0
NoHist == [read |-> <<>>, run |-> <<>>]
LogRead(h, t) == IF last = Off THEN h ELSE [h EXCEPT !.read = Append(@, t)]
LogRun(h, t, thread) ==
    IF last = Off THEN h ELSE [h EXCEPT !.run = Append(@, <<t, thread>>)]

\* the main thread is in no send() that is followed step by step
NoSend == [pc |-> "none", line |-> <<>>, cb |-> FALSE, broken |-> FALSE]

\* --------------------------------------------------------------- the heap
\* The objects the main-thread handlers change, as one record, so that a
\* handler is the composition of the calls it makes.
Heap ==
    [bridges |-> bridges, nextBridge |-> nextBridge, proc |-> proc,
     reader |-> reader, stdin |-> stdin, terminated |-> terminated]

Install(h) ==
    /\ bridges' = h.bridges
    /\ nextBridge' = h.nextBridge
    /\ proc' = h.proc
    /\ reader' = h.reader
    /\ stdin' = h.stdin
    /\ terminated' = h.terminated

Line(type, id, ref, decision) == <<type, id, ref, decision>>

\* send(), lines 194-203: the write under the lock. A dead subprocess gives
\* BrokenPipeError: logged, nothing written.
BrokenPipe(h, b) == h.proc[b] # "running"

\* mutant of Write: a broken pipe restarts the subprocess
Write_Respawn(h, b, line) ==
    IF BrokenPipe(h, b) THEN [h EXCEPT !.proc[b] = "running"]
    ELSE [h EXCEPT !.stdin[b] = Append(@, line)]

Write(h, b, line) ==
    IF BrokenPipe(h, b) THEN h
    ELSE [h EXCEPT !.stdin[b] = Append(@, line)]

\* mutant of Construct: the token is tested after Popen and the reader start
Construct_TokenTestLate(h, inp) ==
    LET b == h.nextBridge
        spawned == [h EXCEPT !.nextBridge = b + 1,
                             !.proc[b] = "running",
                             !.reader[b] = "running"]
    IN  IF inp \in {"no_token", "bad_permissions"}
        THEN [heap |-> spawned, ret |-> NoBridge]
        ELSE [heap |-> Write(spawned, b,
                             Line("configure_session", SessionId, 0, "")),
              ret |-> b]

\* _CodexBridge.__init__: [heap, ret], ret = NoBridge when it raised
Construct(h, inp) ==
    IF inp = "no_token" THEN [heap |-> h, ret |-> NoBridge]
    ELSE LET b == h.nextBridge
             spawned == [h EXCEPT !.nextBridge = b + 1,
                                  !.proc[b] = IF inp = "exits_at_start"
                                              THEN "exited" ELSE "running",
                                  !.reader[b] = "running"]
         IN  IF inp = "bad_permissions"
             THEN [heap |-> spawned, ret |-> NoBridge]
             ELSE [heap |-> Write(spawned, b,
                                  Line("configure_session", SessionId, 0, "")),
                   ret |-> b]

\* mutant of get_bridge: no `key not in bridges` test
get_bridge_NoLookup(h, key, inp) ==
    LET c == Construct(h, inp)
    IN  IF c.ret = NoBridge THEN c
        ELSE [heap |-> [c.heap EXCEPT !.bridges[key] = c.ret], ret |-> c.ret]

\* bridge_manager.get_bridge
get_bridge(h, key, inp) ==
    IF h.bridges[key] = NoBridge
    THEN LET c == Construct(h, inp)
         IN  IF c.ret = NoBridge THEN c
             ELSE [heap |-> [c.heap EXCEPT !.bridges[key] = c.ret], ret |-> c.ret]
    ELSE [heap |-> h, ret |-> h.bridges[key]]

CanConstruct(key) == bridges[key] # NoBridge \/ nextBridge <= MaxBridges

\* mutant of terminate: the subprocesses are started without
\* start_new_session (line 148), so os.killpg reaches the one group they share
terminate_SharedGroup(h, B, T) ==
    [h EXCEPT !.proc = [b \in BridgeIds |->
                           IF B # {} /\ @[b] = "running"
                           THEN "exited" ELSE @[b]],
              !.terminated = [b \in BridgeIds |->
                                 IF b \in B THEN @[b] + 1 ELSE @[b]]]

\* _CodexBridge.terminate on every bridge of B; T: those whose root is still
\* alive when proc.wait(timeout=2) gives up
terminate(h, B, T) ==
    [h EXCEPT !.proc = [b \in BridgeIds |->
                           IF b \in B /\ b \notin T /\ @[b] = "running"
                           THEN "exited" ELSE @[b]],
              !.terminated = [b \in BridgeIds |->
                                 IF b \in B THEN @[b] + 1 ELSE @[b]]]

\* mutant of PopAndTerminate: the key '__global__' is passed over
PopAndTerminate_WindowsOnly(h, ks, T) ==
    terminate([h EXCEPT !.bridges = [k \in Keys |->
                                        IF k \in ks /\ k # GlobalKey
                                        THEN NoBridge ELSE @[k]]],
              {h.bridges[k] : k \in ks \ {GlobalKey}} \ {NoBridge}, T)

\* mutant of PopAndTerminate: every key of the registry is popped
PopAndTerminate_Every(h, ks, T) ==
    terminate([h EXCEPT !.bridges = [k \in Keys |-> NoBridge]],
              {h.bridges[k] : k \in Keys} \ {NoBridge}, T)

\* bridges.pop(key, None) for every key of ks, terminate() on what was popped
PopAndTerminate(h, ks, T) ==
    LET B == {h.bridges[k] : k \in ks} \ {NoBridge}
        popped == [h EXCEPT !.bridges = [k \in Keys |->
                                            IF k \in ks THEN NoBridge ELSE @[k]]]
    IN  terminate(popped, B, T)

Running(B) == {b \in B : proc[b] = "running"}

\* mutants of StaleKeys: '__global__' not excluded; the membership test
\* inverted
StaleKeys_GlobalToo(h, liveIds) ==
    {k \in Keys : h.bridges[k] # NoBridge /\ k \notin liveIds}
StaleKeys_Inverted(h, liveIds) ==
    {k \in Keys : h.bridges[k] # NoBridge /\ k \in liveIds /\ k # GlobalKey}

\* mutant of StaleKeys: '__global__' is excluded only while a window is live
StaleKeys_NoWindowLeft(h, liveIds) ==
    {k \in Keys : /\ h.bridges[k] # NoBridge
                  /\ k \notin liveIds
                  /\ (k # GlobalKey \/ liveIds = {})}

\* the stale keys of _watchdog_tick and _cleanup_orphan_bridges
StaleKeys(h, liveIds) ==
    {k \in Keys : h.bridges[k] # NoBridge /\ k \notin liveIds /\ k # GlobalKey}

StaleBridges == {bridges[k] : k \in StaleKeys(Heap, live)}

\* mutant of OrphanKeys: '__global__' not excluded
OrphanKeys_GlobalToo(h, liveIds) ==
    {k \in Keys : h.bridges[k] # NoBridge /\ k \notin liveIds}

\* the keys _cleanup_orphan_bridges pops, line 60
OrphanKeys(h, liveIds) ==
    {k \in Keys : h.bridges[k] # NoBridge /\ k \notin liveIds /\ k # GlobalKey}

OrphanBridges == {bridges[k] : k \in OrphanKeys(Heap, live)}

\* -------------------------------------------------------- the processes
MaxPid == 3          \* pids RootPid..MaxPid can exist in the bridge's tree
MaxTerminates == 2   \* calls of terminate() on one bridge
RootPid == 1                         \* self.proc.pid
OutPid == 0                          \* a parent outside the tree: the host, init
Pids == RootPid..MaxPid
\* ptab[p].st: "free" (never started), "run", "dead", "foreign" (a running
\* process that is not of the bridge's tree); a dead descendant is taken to
\* be reaped at once, the dead root stays until poll() or wait() reaps it
NoProc == [st |-> "free", ppid |-> OutPid, pgid |-> OutPid]

\* ------------------------------------------------------------------- Init
\* the module state at import: bridge_manager.bridges = {}, no bridge object
\* ------------------------------------------------------- the session id
\* uuid.uuid4() is a counter of fresh values 1, 2, ...; NoStored: the project
\* data hold no session_id, or None; NoUuid as nextSess: the specification
\* does not follow session ids. SessionId, the id of the configure_session
\* line, stands for self._session_id of the bridge that writes it, session[b].
NoStored == 0
NoUuid == 0

NoSessions ==
    /\ pdata = [w \in Windows |-> NoStored]
    /\ session = [b \in BridgeIds |-> NoStored]
    /\ nextSess = NoUuid

\* _CodexBridge._ensure_session_id(window): [id, pdata, next]
ensure_session_id(pd, hp, window, fresh) ==
    IF window = NoWindow \/ ~hp[window]
    THEN [id |-> fresh, pdata |-> pd, next |-> fresh + 1]
    ELSE IF pd[window] = NoStored
         THEN [id |-> fresh, pdata |-> [pd EXCEPT ![window] = fresh],
               next |-> fresh + 1]
         ELSE [id |-> pd[window], pdata |-> pd, next |-> fresh]

\* sublime.active_window(): the window that has the focus, None with no window
ActiveWindows == IF live = {} THEN {NoWindow} ELSE live

\* __init__, lines 123 and 162, for the constructor that get_bridge ran, if it
\* ran one that passed the token test: self._session_id is
\* _ensure_session_id(sublime.active_window())
SessionStep(g) ==
    IF nextSess = NoUuid \/ g.heap.nextBridge = nextBridge
    THEN UNCHANGED sessVars
    ELSE \E a \in ActiveWindows :
           LET e == ensure_session_id(pdata, hasProject, a, nextSess) IN
           /\ pdata' = e.pdata
           /\ nextSess' = e.next
           /\ session' = [session EXCEPT ![nextBridge] = e.id]

\* ------------------------------------------- several threads in send()
\* Threads that call send() on the bridge SendBridge with no callback. A
\* thread's send is followed statement by statement: "acquire" (line 195),
\* "write" (199), "flush" (200), "release" (the with block is left), and
\* "idle" outside send(); sent counts its envelopes. write() hands the pipe
\* the head of the line and flush() the rest, as pieces <<thread, envelope,
\* part>> of pipe.
Threads == {1, 2}
SendBridge == 1
NoThread == [pc |-> "idle", sent |-> 0, broken |-> FALSE]

NoSenders ==
    /\ thr = [t \in Threads |-> NoThread]
    /\ pipe = <<>>

NoBridges ==
    /\ bridges = [k \in Keys |-> NoBridge]
    /\ nextBridge = 1
    /\ proc = [b \in BridgeIds |-> "none"]
    /\ reader = [b \in BridgeIds |-> "none"]
    /\ callbacks = [b \in BridgeIds |-> {}]
    /\ stdin = [b \in BridgeIds |-> <<>>]
    /\ stdout = [b \in BridgeIds |-> <<>>]
    /\ terminated = [b \in BridgeIds |-> 0]
    /\ timeouts = <<>>
    /\ panels = {}
    /\ mainPc = Idle
    /\ nextMsg = 1
    /\ emitted = 0
    /\ resetPending = [w \in Windows |-> FALSE]
    /\ hist = NoHist
    /\ lock = [b \in BridgeIds |-> FALSE]
    /\ snd = NoSend

\* no terminate() is being followed step by step
NoTerminate ==
    /\ ptab = [p \in Pids |-> NoProc]
    /\ tcall = "none"
    /\ tpc = "off"
    /\ todo = <<>>
    /\ sigs = <<>>
    /\ reaped = FALSE
    /\ denied = FALSE
    /\ tcalls = 0

Init ==
    /\ settings \in Settings
    /\ hasProject = [w \in Windows |-> TRUE]
    /\ NoSessions
    /\ NoSenders
    /\ phase = "init"
    /\ tickPending = 0
    /\ live = Windows
    /\ NoBridges
    /\ NoTerminate
    /\ last = [op |-> "init", key |-> 0, ret |-> ""]

\* ------------------------------------------------------ main-thread steps
MainIdle == phase = "loaded" /\ mainPc = Idle

\* lifecycle.plugin_loaded: the first _watchdog_tick
PluginLoaded ==
    /\ phase = "init"
    /\ phase' = "loaded"
    /\ \E T \in SUBSET Running(StaleBridges) :
           Install(PopAndTerminate(Heap, StaleKeys(Heap, live), T))
    /\ tickPending' = tickPending + 1
    /\ last' = Op("plugin_loaded", 0, IF StaleBridges = {} THEN "" ELSE "swept")
    /\ UNCHANGED <<hist, lock, snd, sessVars, concVars, killVars>>
    /\ UNCHANGED <<settings, hasProject, live, callbacks, stdout, timeouts, panels, mainPc,
                   nextMsg, emitted, resetPending>>

\* lifecycle._watchdog_tick, run by the timer it set
WatchdogTick ==
    /\ MainIdle
    /\ tickPending > 0
    /\ \E T \in SUBSET Running(StaleBridges) :
           Install(PopAndTerminate(Heap, StaleKeys(Heap, live), T))
    /\ tickPending' = (tickPending - 1) + 1
    /\ last' = Op("watchdog_tick", 0, IF StaleBridges = {} THEN "" ELSE "swept")
    /\ UNCHANGED <<hist, lock, snd, sessVars, concVars, killVars>>
    /\ UNCHANGED <<settings, hasProject, phase, live, callbacks, stdout, timeouts, panels,
                   mainPc, nextMsg, emitted, resetPending>>

\* lifecycle._watchdog_tick when bridge.terminate() raises at line 50 (the
\* root r refuses the signal of proc.terminate()): the keys K of the loop so
\* far are popped, the exception leaves the function before line 52
WatchdogTickRaised ==
    /\ MainIdle
    /\ tickPending > 0
    /\ \E K \in SUBSET StaleKeys(Heap, live) :
        \E r \in Running({bridges[k] : k \in K}) :
        \E T \in SUBSET Running({bridges[k] : k \in K}) :
           /\ r \in T
           /\ Install(PopAndTerminate(Heap, K, T))
    /\ tickPending' = tickPending - 1
    /\ last' = Op("watchdog_tick_raised", 0, "swept")
    /\ UNCHANGED <<hist, lock, snd, sessVars, concVars, killVars>>
    /\ UNCHANGED <<settings, hasProject, phase, live, callbacks, stdout, timeouts, panels,
                   mainPc, nextMsg, emitted, resetPending>>

\* CodexSubmitInputPanelCommand.run up to the write of send(). In a window
\* without project data, project_data.get raises after get_bridge.
Submit(w) ==
    /\ MainIdle
    /\ w \in live
    /\ nextMsg <= MaxSends
    /\ CanConstruct(w)
    /\ LET g == get_bridge(Heap, w, settings) IN
        /\ SessionStep(g)
        /\ IF g.ret = NoBridge \/ ~hasProject[w]
           THEN /\ Install(g.heap)
                /\ mainPc' = Idle
                /\ nextMsg' = nextMsg
                /\ last' = Op("submit", w, "")
           ELSE /\ Install(Write(g.heap, g.ret, Line("user_input", nextMsg, 0, "")))
                /\ mainPc' = IF BrokenPipe(g.heap, g.ret) THEN Idle
                             ELSE <<g.ret, nextMsg, w>>
                /\ nextMsg' = nextMsg + 1
                /\ last' = Op("submit", w, "")
    /\ resetPending' = [resetPending EXCEPT ![w] = FALSE]
    /\ UNCHANGED <<hist, lock, snd, concVars, killVars>>
    /\ UNCHANGED <<settings, hasProject, phase, tickPending, live, callbacks, stdout, timeouts,
                   panels, emitted>>

\* send(), lines 205-206: the callback is stored after the write
SendRegister ==
    /\ mainPc # Idle
    /\ callbacks' = [callbacks EXCEPT ![mainPc[1]] =
                        {c \in @ : c[1] # mainPc[2]} \cup {<<mainPc[2], mainPc[3]>>}]
    /\ mainPc' = Idle
    /\ last' = Op("send_register", mainPc[3], "")
    /\ UNCHANGED <<hist, lock, snd, sessVars, concVars, killVars>>
    /\ UNCHANGED <<settings, hasProject, phase, tickPending, live, bridges, nextBridge, proc, reader,
                   stdin, stdout, terminated, timeouts, panels, nextMsg,
                   emitted, resetPending>>

\* get_bridge(window) as its callers reach it: key is window.id(), or
\* '__global__' for get_bridge(None)
GetBridge(key) ==
    /\ MainIdle
    /\ key \in live \cup {GlobalKey}
    /\ CanConstruct(key)
    /\ LET g == get_bridge(Heap, key, settings) IN
        /\ Install(g.heap)
        /\ SessionStep(g)
        /\ last' = Op("get_bridge", key,
                       IF bridges[key] # NoBridge THEN "reused"
                       ELSE IF g.ret = NoBridge THEN "raised" ELSE "created")
    /\ UNCHANGED <<hist, lock, snd, concVars, killVars>>
    /\ UNCHANGED <<settings, hasProject, phase, tickPending, live, callbacks, stdout, timeouts,
                   panels, mainPc, nextMsg, emitted, resetPending>>

\* the scheduled lambda _c(_e): _display_assistant_response on the main thread
RunTimeout ==
    /\ MainIdle
    /\ timeouts # <<>>
    /\ LET t == Head(timeouts) IN
        /\ panels' = IF t[3] = "exec_approval_request" /\ t[4] \in live
                     THEN panels \cup {<<t[4], t[2]>>} ELSE panels
        /\ last' = Op("run_timeout", t[4], "")
        /\ hist' = LogRun(hist, t, "main")
    /\ timeouts' = Tail(timeouts)
    /\ UNCHANGED <<lock, snd, sessVars, concVars, killVars>>
    /\ UNCHANGED <<settings, hasProject, phase, tickPending, live, bridges, nextBridge, proc, reader,
                   callbacks, stdin, stdout, terminated, mainPc, nextMsg,
                   emitted, resetPending>>

\* mutant of choice_map: a dismissed panel (index -1) is taken as approval
choice_map_DismissApproves(index) ==
    CASE index = 0 -> "approved"
      [] index = 1 -> "approved_for_session"
      [] index = 2 -> "denied"
      [] index = 3 -> "abort"
      [] OTHER -> "approved"

\* the quick panel's answer as the history records it: the index of the
\* entry picked, -1 when the panel was dismissed
Answer(index) ==
    CASE index = 0 -> "yes"
      [] index = 1 -> "always_yes"
      [] index = 2 -> "no"
      [] index = 3 -> "abort_execution"
      [] OTHER -> "dismissed"

choice_map(index) ==
    CASE index = 0 -> "approved"
      [] index = 1 -> "approved_for_session"
      [] index = 2 -> "denied"
      [] index = 3 -> "abort"
      [] OTHER -> "denied"

\* _display_assistant_response._on_done
OnDone(p) ==
    /\ MainIdle
    /\ p \in panels
    /\ p[1] \in live
    /\ CanConstruct(p[1])
    /\ \E index \in -1..3 :
        LET g == get_bridge(Heap, p[1], settings) IN
        /\ SessionStep(g)
        /\ IF g.ret = NoBridge THEN Install(g.heap)
           ELSE Install(Write(g.heap, g.ret,
                              Line("exec_approval", SessionId, p[2], choice_map(index))))
        /\ last' = Op("on_done", p[1], Answer(index))
    /\ panels' = panels \ {p}
    /\ UNCHANGED <<hist, lock, snd, concVars, killVars>>
    /\ UNCHANGED <<settings, hasProject, phase, tickPending, live, callbacks, stdout, timeouts,
                   mainPc, nextMsg, emitted, resetPending>>

\* CodexResetChatCommand.run
Reset(w) ==
    /\ MainIdle
    /\ w \in live
    /\ \E T \in SUBSET Running({bridges[w]} \ {NoBridge}) :
           Install(PopAndTerminate(Heap, {w}, T))
    /\ resetPending' = [resetPending EXCEPT ![w] = TRUE]
    /\ pdata' = [pdata EXCEPT ![w] = NoStored]
    /\ last' = Op("reset", w, "")
    /\ UNCHANGED <<hist, lock, snd, session, nextSess, concVars, killVars>>
    /\ UNCHANGED <<settings, hasProject, phase, tickPending, live, callbacks, stdout, timeouts,
                   panels, mainPc, nextMsg, emitted>>

\* CodexWindowEventListener.on_pre_close; case: what view.window() and
\* len(window.views()) give
OnPreClose(w, case) ==
    /\ MainIdle
    /\ \/ /\ case = "no_window"
          /\ \E T \in SUBSET Running(OrphanBridges) :
                 Install(PopAndTerminate(Heap, OrphanKeys(Heap, live), T))
          /\ last' = Op("on_pre_close_sweep", 0, IF OrphanBridges = {} THEN "" ELSE "swept")
       \/ /\ case = "last_view"
          /\ w \in live
          /\ \E T \in SUBSET Running({bridges[w]} \ {NoBridge}) :
                 Install(PopAndTerminate(Heap, {w}, T))
          /\ last' = Op("on_pre_close_last", w, "")
       \/ /\ case = "other_views"
          /\ w \in live
          /\ Install(Heap)
          /\ last' = Op("on_pre_close_other", w, "")
    /\ UNCHANGED <<hist, lock, snd, sessVars, concVars, killVars>>
    /\ UNCHANGED <<settings, hasProject, phase, tickPending, live, callbacks, stdout, timeouts,
                   panels, mainPc, nextMsg, emitted, resetPending>>

\* lifecycle.plugin_unloaded
PluginUnloaded ==
    /\ MainIdle
    /\ LET B == {bridges[k] : k \in Keys} \ {NoBridge} IN
       \E T \in SUBSET Running(B) :
           Install(PopAndTerminate(Heap, Keys, T))
    /\ phase' = "unloaded"
    /\ last' = Op("plugin_unloaded", 0, "")
    /\ UNCHANGED <<hist, lock, snd, sessVars, concVars, killVars>>
    /\ UNCHANGED <<settings, hasProject, tickPending, live, callbacks, stdout, timeouts,
                   panels, mainPc, nextMsg, emitted, resetPending>>

\* ------------------------------------------------------------- the host
\* the user repairs the plug-in or project settings
FixSettings ==
    /\ MainIdle
    /\ settings # "ok"
    /\ settings' = "ok"
    /\ last' = Op("fix_settings", 0, "")
    /\ UNCHANGED <<hist, lock, snd, sessVars, concVars, killVars>>
    /\ UNCHANGED <<hasProject, phase, tickPending, live, bridges, nextBridge, proc,
                   reader, callbacks, stdin, stdout, terminated, timeouts,
                   panels, mainPc, nextMsg, emitted, resetPending>>

\* the user opens a project in window w: window.project_data() is a dict
\* from now on
SetProject(w) ==
    /\ MainIdle
    /\ w \in live
    /\ ~hasProject[w]
    /\ hasProject' = [hasProject EXCEPT ![w] = TRUE]
    /\ last' = Op("set_project", w, "")
    /\ UNCHANGED <<hist, lock, snd, sessVars, concVars, killVars>>
    /\ UNCHANGED <<settings, phase, tickPending, live, bridges, nextBridge, proc,
                   reader, callbacks, stdin, stdout, terminated, timeouts,
                   panels, mainPc, nextMsg, emitted, resetPending>>

\* a window goes away; no notification reaches the plug-in
CloseWindow(w) ==
    /\ MainIdle
    /\ w \in live
    /\ live' = live \ {w}
    /\ panels' = {p \in panels : p[1] # w}
    /\ last' = Op("close_window", w, "")
    /\ UNCHANGED <<hist, lock, snd, sessVars, concVars, killVars>>
    /\ UNCHANGED <<settings, hasProject, phase, tickPending, bridges, nextBridge, proc, reader,
                   callbacks, stdin, stdout, terminated, timeouts,
                   mainPc, nextMsg, emitted, resetPending>>

\* ------------------------------------------------------- the subprocess
ReceivedIds(b) == {stdin[b][i][2] : i \in 1..Len(stdin[b])}

Emit(b) ==
    /\ proc[b] = "running"
    /\ emitted < MaxLines
    /\ \E id \in ReceivedIds(b) : \E ty \in TypesOf(id) :
           stdout' = [stdout EXCEPT ![b] = Append(@, <<id, ty, "json">>)]
    /\ emitted' = emitted + 1
    /\ last' = Async
    /\ UNCHANGED <<hist, lock, snd, sessVars, concVars, killVars>>
    /\ UNCHANGED <<settings, hasProject, phase, tickPending, live, bridges, nextBridge, proc, reader,
                   callbacks, stdin, terminated, timeouts, panels,
                   mainPc, nextMsg, resetPending>>

\* the subprocess writes a line that is no JSON event: log text (stderr is
\* merged into stdout, line 143), a cut or garbled object, or an object of
\* another shape than an event
EmitMalformed(b) ==
    /\ proc[b] = "running"
    /\ emitted < MaxLines
    /\ \E shape \in Shapes \ {"json"} :
           stdout' = [stdout EXCEPT ![b] = Append(@, <<NoId, NoType, shape>>)]
    /\ emitted' = emitted + 1
    /\ last' = Async
    /\ UNCHANGED <<hist, lock, snd, sessVars, concVars, killVars>>
    /\ UNCHANGED <<settings, hasProject, phase, tickPending, live, bridges, nextBridge, proc, reader,
                   callbacks, stdin, terminated, timeouts, panels,
                   mainPc, nextMsg, resetPending>>

\* the subprocess writes a grouped notification: an event with an id of its
\* own, which no request had, that names the id of a request as its parent.
\* The line is <<parent id, type, "grouped">>.
EmitGrouped(b) ==
    /\ proc[b] = "running"
    /\ emitted < MaxLines
    /\ \E parent \in ReceivedIds(b) \ {SessionId} : \E ty \in Types :
           stdout' = [stdout EXCEPT ![b] = Append(@, <<parent, ty, "grouped">>)]
    /\ emitted' = emitted + 1
    /\ last' = Async
    /\ UNCHANGED <<hist, lock, snd, sessVars, concVars, killVars>>
    /\ UNCHANGED <<settings, hasProject, phase, tickPending, live, bridges, nextBridge, proc, reader,
                   callbacks, stdin, terminated, timeouts, panels,
                   mainPc, nextMsg, resetPending>>

\* the subprocess exits: by itself, or killed
ProcExit(b) ==
    /\ proc[b] = "running"
    /\ proc' = [proc EXCEPT ![b] = "exited"]
    /\ last' = Async
    /\ UNCHANGED <<hist, lock, snd, sessVars, concVars, killVars>>
    /\ UNCHANGED <<settings, hasProject, phase, tickPending, live, bridges, nextBridge, reader,
                   callbacks, stdin, stdout, terminated, timeouts,
                   panels, mainPc, nextMsg, emitted, resetPending>>

\* ------------------------------------------------------ the reader thread
\* mutant of ReaderAfter: json.loads outside the try of lines 223-227
ReaderAfter_Raise(line) ==
    IF line[3] \in {"bad_json", "bad_shape"} THEN "done" ELSE "running"

\* the reader thread after a line: the loop goes on, also after the
\* `continue` of lines 221 and 227; an exception of lines 229-233 is caught
\* nowhere and ends the thread
ReaderAfter(line) == IF line[3] = "bad_shape" THEN "done" ELSE "running"

\* mutant of Dispatch: the reader calls cb(event) itself
Dispatch_OnReader(q, h, t) == [timeouts |-> q, hist |-> LogRun(h, t, "reader")]

\* mutant of Dispatch: the invocation is put before the scheduled ones
Dispatch_Front(q, h, t) == [timeouts |-> <<t>> \o q, hist |-> h]

\* line 238: sublime.set_timeout(lambda _e=event, _c=cb: _c(_e), 0) puts the
\* invocation t behind those the host has still to run
Dispatch(q, h, t) == [timeouts |-> Append(q, t), hist |-> h]

\* _read_loop, one line: lines 216-238. A line without '{' (219-221) and a
\* line whose JSON does not parse (223-227) are skipped with `continue`.
ReadLine(b) ==
    /\ reader[b] = "running"
    /\ stdout[b] # <<>>
    /\ LET line == Head(stdout[b])
           call_id == line[1]
           msg_type == line[2]
           hit == {c \in callbacks[b] : c[1] = call_id}
       IN  /\ IF line[3] = "json" /\ hit # {}
              THEN LET cb == CHOOSE c \in hit : TRUE
                       t == <<b, call_id, msg_type, cb[2]>>
                   IN  /\ callbacks' = IF msg_type \in TerminalTypes
                                       THEN [callbacks EXCEPT ![b] = @ \ hit]
                                       ELSE callbacks
                       /\ timeouts' = Dispatch(timeouts, hist, t).timeouts
                       /\ hist' = LogRead(Dispatch(timeouts, hist, t).hist,
                                          <<b, call_id, msg_type, cb[2], line[3]>>)
              ELSE /\ UNCHANGED <<callbacks, timeouts>>
                   /\ hist' = LogRead(hist, <<b, call_id, msg_type, NoWindow, line[3]>>)
           /\ reader' = [reader EXCEPT ![b] = ReaderAfter(line)]
    /\ stdout' = [stdout EXCEPT ![b] = Tail(@)]
    /\ last' = Async
    /\ UNCHANGED <<lock, snd, sessVars, concVars, killVars>>
    /\ UNCHANGED <<settings, hasProject, phase, tickPending, live, bridges, nextBridge, proc,
                   stdin, terminated, panels, mainPc, nextMsg, emitted,
                   resetPending>>

\* `for line in self.proc.stdout` ends: the stream is closed and drained
ReaderEOF(b) ==
    /\ reader[b] = "running"
    /\ proc[b] = "exited"
    /\ stdout[b] = <<>>
    /\ reader' = [reader EXCEPT ![b] = "done"]
    /\ last' = Async
    /\ UNCHANGED <<hist, lock, snd, sessVars, concVars, killVars>>
    /\ UNCHANGED <<settings, hasProject, phase, tickPending, live, bridges, nextBridge, proc,
                   callbacks, stdin, stdout, terminated, timeouts,
                   panels, mainPc, nextMsg, emitted, resetPending>>

\* The registry and its lifecycle: every way a bridge is created, removed
\* and terminated.
Next ==
    \/ PluginLoaded
    \/ WatchdogTick
    \/ \E k \in Keys : GetBridge(k)
    \/ \E w \in Windows : Reset(w)
    \/ \E w \in Windows, case \in {"no_window", "last_view", "other_views"} :
           OnPreClose(w, case)
    \/ PluginUnloaded
    \/ \E w \in Windows : CloseWindow(w)
    \/ FixSettings
    \/ \E b \in BridgeIds : ProcExit(b)

Spec == Init /\ [][Next]_vars

\* The channel of one window: requests, replies, callbacks, approvals, reset.
ChanWindow == 1

InitChan ==
    /\ settings = "ok"
    /\ \E pd \in BOOLEAN : hasProject = [w \in Windows |-> pd]
    /\ NoSessions
    /\ NoSenders
    /\ phase = "loaded"
    /\ tickPending = 1
    /\ live = {ChanWindow}
    /\ NoBridges
    /\ NoTerminate
    /\ last = Off

NextChan ==
    \/ \E w \in Windows : Submit(w)
    \/ SendRegister
    \/ RunTimeout
    \/ \E p \in panels : OnDone(p)
    \/ \E w \in Windows : Reset(w)
    \/ \E b \in BridgeIds : Emit(b)
    \/ \E b \in BridgeIds : ProcExit(b)
    \/ \E b \in BridgeIds : ReadLine(b)
    \/ \E b \in BridgeIds : ReaderEOF(b)

SpecChan == InitChan /\ [][NextChan]_vars

\* The reader threads of the windows' bridges and the callbacks they schedule,
\* with history, when the subprocess also writes lines that are no events.
InitRead ==
    /\ settings = "ok"
    /\ hasProject = [w \in Windows |-> TRUE]
    /\ NoSessions
    /\ NoSenders
    /\ phase = "loaded"
    /\ tickPending = 1
    /\ live = Windows
    /\ NoBridges
    /\ NoTerminate
    /\ last = [op |-> "init", key |-> 0, ret |-> ""]

NextRead ==
    \/ \E w \in Windows : Submit(w)
    \/ SendRegister
    \/ RunTimeout
    \/ \E b \in BridgeIds : Emit(b)
    \/ \E b \in BridgeIds : EmitMalformed(b)
    \/ \E b \in BridgeIds : ProcExit(b)
    \/ \E b \in BridgeIds : ReadLine(b)
    \/ \E b \in BridgeIds : ReaderEOF(b)

SpecRead == InitRead /\ [][NextRead]_vars

\* One window's channel with the approval prompts and their answers, the
\* handlers recorded in `last`; the window is not reset.
InitAsk ==
    /\ settings = "ok"
    /\ hasProject = [w \in Windows |-> TRUE]
    /\ NoSessions
    /\ NoSenders
    /\ phase = "loaded"
    /\ tickPending = 1
    /\ live = {ChanWindow}
    /\ NoBridges
    /\ NoTerminate
    /\ last = [op |-> "init", key |-> 0, ret |-> ""]

NextAsk ==
    \/ \E w \in Windows : Submit(w)
    \/ SendRegister
    \/ RunTimeout
    \/ \E p \in panels : OnDone(p)
    \/ \E b \in BridgeIds : Emit(b)
    \/ \E b \in BridgeIds : ProcExit(b)
    \/ \E b \in BridgeIds : ReadLine(b)

SpecAsk == InitAsk /\ [][NextAsk]_vars

\* One window's channel with grouped notifications among the replies.
NextGroup ==
    \/ \E w \in Windows : Submit(w)
    \/ SendRegister
    \/ RunTimeout
    \/ \E b \in BridgeIds : Emit(b)
    \/ \E b \in BridgeIds : EmitGrouped(b)
    \/ \E b \in BridgeIds : ReadLine(b)

SpecGroup == InitChan /\ [][NextGroup]_vars

\* ------------------------------------------- send(), step by step
\* The steps of send() on the main thread: the call, `with self._lock`, the
\* write and flush, the end of the with block, the store of the callback.
\* While the main thread is in send(), mainPc = <<bridge, id, window>>.

\* CodexSubmitInputPanelCommand.run up to the call of bridge.send, line 398
SubmitSend(w) ==
    /\ MainIdle
    /\ w \in live
    /\ nextMsg <= MaxSends
    /\ CanConstruct(w)
    /\ LET g == get_bridge(Heap, w, settings) IN
        /\ Install(g.heap)
        /\ SessionStep(g)
        /\ IF g.ret = NoBridge \/ ~hasProject[w]
           THEN UNCHANGED <<mainPc, snd, nextMsg>>
           ELSE /\ mainPc' = <<g.ret, nextMsg, w>>
                /\ snd' = [pc |-> "acquire", cb |-> TRUE, broken |-> FALSE,
                           line |-> Line("user_input", nextMsg, 0, "")]
                /\ nextMsg' = nextMsg + 1
    /\ resetPending' = [resetPending EXCEPT ![w] = FALSE]
    /\ last' = Op("submit", w, "")
    /\ UNCHANGED <<hist, lock, concVars, killVars>>
    /\ UNCHANGED <<settings, hasProject, phase, tickPending, live, callbacks,
                   stdout, timeouts, panels, emitted>>

\* _on_done up to the call of bridge.send, line 131: a send with no callback
OnDoneSend(p) ==
    /\ MainIdle
    /\ p \in panels
    /\ p[1] \in live
    /\ CanConstruct(p[1])
    /\ \E index \in -1..3 :
        LET g == get_bridge(Heap, p[1], settings) IN
        /\ Install(g.heap)
        /\ SessionStep(g)
        /\ IF g.ret = NoBridge
           THEN UNCHANGED <<mainPc, snd>>
           ELSE /\ mainPc' = <<g.ret, SessionId, p[1]>>
                /\ snd' = [pc |-> "acquire", cb |-> FALSE, broken |-> FALSE,
                           line |-> Line("exec_approval", SessionId, p[2],
                                         choice_map(index))]
    /\ panels' = panels \ {p}
    /\ last' = Op("on_done", p[1], "")
    /\ UNCHANGED <<hist, lock, concVars, killVars>>
    /\ UNCHANGED <<settings, hasProject, phase, tickPending, live, callbacks,
                   stdout, timeouts, nextMsg, emitted, resetPending>>

\* send(), line 195: `with self._lock` takes the lock when it is free
LockAcquire ==
    /\ snd.pc = "acquire"
    /\ ~lock[mainPc[1]]
    /\ lock' = [lock EXCEPT ![mainPc[1]] = TRUE]
    /\ snd' = [snd EXCEPT !.pc = "write"]
    /\ last' = Op("lock_acquire", mainPc[3], "")
    /\ UNCHANGED <<hist, sessVars, concVars, killVars>>
    /\ UNCHANGED <<settings, hasProject, phase, tickPending, live, bridges,
                   nextBridge, proc, reader, callbacks, stdin, stdout,
                   terminated, timeouts, panels, mainPc, nextMsg, emitted,
                   resetPending>>

\* send(), lines 197-203: write and flush, or BrokenPipeError and `return`
WriteFlush ==
    /\ snd.pc = "write"
    /\ Install(Write(Heap, mainPc[1], snd.line))
    /\ snd' = [snd EXCEPT !.pc = "release", !.broken = BrokenPipe(Heap, mainPc[1])]
    /\ last' = Op("write_flush", mainPc[3], "")
    /\ UNCHANGED <<hist, lock, sessVars, concVars, killVars>>
    /\ UNCHANGED <<settings, hasProject, phase, tickPending, live, callbacks,
                   stdout, timeouts, panels, mainPc, nextMsg, emitted,
                   resetPending>>

\* mutant of LockAfterWith: the `return` of line 203 keeps the lock
LockAfterWith_KeptOnReturn(broken) == broken

\* the lock after the with block of lines 195-203 is left, by its end or by
\* the `return` of the except clause: released
LockAfterWith(broken) == FALSE

\* send(): the with block is left; after a broken pipe send() has returned,
\* a send without callback returns at line 205
LockRelease ==
    /\ snd.pc = "release"
    /\ lock' = [lock EXCEPT ![mainPc[1]] = LockAfterWith(snd.broken)]
    /\ IF snd.broken \/ ~snd.cb
       THEN /\ snd' = NoSend
            /\ mainPc' = Idle
       ELSE /\ snd' = [snd EXCEPT !.pc = "store"]
            /\ mainPc' = mainPc
    /\ last' = Op("lock_release", mainPc[3], "")
    /\ UNCHANGED <<hist, sessVars, concVars, killVars>>
    /\ UNCHANGED <<settings, hasProject, phase, tickPending, live, bridges,
                   nextBridge, proc, reader, callbacks, stdin, stdout,
                   terminated, timeouts, panels, nextMsg, emitted,
                   resetPending>>

\* send(), lines 205-206: self._callbacks[obj['id']] = cb, and the return
StoreCallback ==
    /\ snd.pc = "store"
    /\ callbacks' = [callbacks EXCEPT ![mainPc[1]] =
                        {c \in @ : c[1] # mainPc[2]} \cup {<<mainPc[2], mainPc[3]>>}]
    /\ snd' = NoSend
    /\ mainPc' = Idle
    /\ last' = Op("send_register", mainPc[3], "")
    /\ UNCHANGED <<hist, lock, sessVars, concVars, killVars>>
    /\ UNCHANGED <<settings, hasProject, phase, tickPending, live, bridges,
                   nextBridge, proc, reader, stdin, stdout, terminated,
                   timeouts, panels, nextMsg, emitted, resetPending>>

NextLock ==
    \/ \E w \in Windows : SubmitSend(w)
    \/ \E p \in panels : OnDoneSend(p)
    \/ LockAcquire
    \/ WriteFlush
    \/ LockRelease
    \/ StoreCallback
    \/ RunTimeout
    \/ \E b \in BridgeIds : Emit(b)
    \/ \E b \in BridgeIds : ProcExit(b)
    \/ \E b \in BridgeIds : ReadLine(b)

\* The main thread runs: a step of send() that is enabled is taken.
SpecLock ==
    /\ InitChan
    /\ [][NextLock]_vars
    /\ WF_vars(LockAcquire) /\ WF_vars(WriteFlush)
    /\ WF_vars(LockRelease) /\ WF_vars(StoreCallback)

\* send() on bridges whose subprocess may be dead: submits, subprocess exits,
\* resets, and windows that get a project.
NextPipe ==
    \/ \E w \in Windows : SubmitSend(w)
    \/ LockAcquire
    \/ WriteFlush
    \/ LockRelease
    \/ StoreCallback
    \/ \E w \in Windows : Reset(w)
    \/ \E w \in Windows : SetProject(w)
    \/ \E b \in BridgeIds : ProcExit(b)

SpecPipe == InitChan /\ [][NextPipe]_vars

\* Two windows that each hold a bridge with a prompt under way: the state
\* after a submit in each window (bridge w for window w, the prompt's id
\* PriorId(w) registered with the window's callback; the lines the
\* subprocesses wrote so far are read, one more is to come). From there:
\* sends, a reply and its dispatch, and resets, in both windows.
PriorId(w) == MaxSends + w

InitPair ==
    /\ settings = "ok"
    /\ hasProject = [w \in Windows |-> TRUE]
    /\ NoSessions
    /\ NoSenders
    /\ phase = "loaded"
    /\ tickPending = 1
    /\ live = Windows
    /\ bridges = [k \in Keys |-> IF k \in Windows THEN k ELSE NoBridge]
    /\ nextBridge = Cardinality(Windows) + 1
    /\ proc = [b \in BridgeIds |-> IF b \in Windows THEN "running" ELSE "none"]
    /\ reader = [b \in BridgeIds |-> IF b \in Windows THEN "running" ELSE "none"]
    /\ callbacks = [b \in BridgeIds |->
                       IF b \in Windows THEN {<<PriorId(b), b>>} ELSE {}]
    /\ stdin = [b \in BridgeIds |->
                   IF b \in Windows
                   THEN <<Line("configure_session", SessionId, 0, ""),
                          Line("user_input", PriorId(b), 0, "")>>
                   ELSE <<>>]
    /\ stdout = [b \in BridgeIds |-> <<>>]
    /\ terminated = [b \in BridgeIds |-> 0]
    /\ timeouts = <<>>
    /\ panels = {}
    /\ mainPc = Idle
    /\ nextMsg = 1
    /\ emitted = MaxLines - 1
    /\ resetPending = [w \in Windows |-> FALSE]
    /\ hist = NoHist
    /\ lock = [b \in BridgeIds |-> FALSE]
    /\ snd = NoSend
    /\ NoTerminate
    /\ last = Off

NextPair ==
    \/ \E w \in Windows : SubmitSend(w)
    \/ LockAcquire
    \/ WriteFlush
    \/ LockRelease
    \/ StoreCallback
    \/ \E b \in BridgeIds : Emit(b)
    \/ \E b \in BridgeIds : ReadLine(b)
    \/ RunTimeout
    \/ \E w \in Windows : Reset(w)

SpecPair == InitPair /\ [][NextPair]_vars

\* The registry when no close notification reaches the plug-in, with the host
\* running what it schedules: plugin_loaded at load, and every timer set with
\* sublime.set_timeout.
NextLive ==
    \/ PluginLoaded
    \/ WatchdogTick
    \/ \E k \in Keys : GetBridge(k)
    \/ \E w \in Windows : Reset(w)
    \/ PluginUnloaded
    \/ \E w \in Windows : CloseWindow(w)
    \/ FixSettings
    \/ \E b \in BridgeIds : ProcExit(b)

SpecLive ==
    Init /\ [][NextLive]_vars /\ WF_vars(PluginLoaded) /\ WF_vars(WatchdogTick)

\* The watchdog with subprocesses that may refuse the host's signals.
NextTick ==
    \/ PluginLoaded
    \/ WatchdogTick
    \/ WatchdogTickRaised
    \/ \E k \in Keys : GetBridge(k)
    \/ \E w \in Windows : CloseWindow(w)
    \/ \E b \in BridgeIds : ProcExit(b)

SpecTick == Init /\ [][NextTick]_vars

\* ------------------------------------- terminate(), kill_process_tree()
hostVars == <<settings, hasProject, phase, tickPending, live, bridges,
              nextBridge, proc, reader, callbacks, stdin, stdout, terminated,
              timeouts, panels, mainPc, nextMsg, emitted, resetPending, last,
              hist, lock, snd, pdata, session, nextSess, thr, pipe>>

\* what a step of a thread's send() leaves alone, the lock aside
hostVarsButLock == <<settings, hasProject, phase, tickPending, live, bridges,
                     nextBridge, proc, reader, callbacks, stdin, stdout,
                     terminated, timeouts, panels, mainPc, nextMsg, emitted,
                     resetPending, last, hist, snd, pdata, session, nextSess>>

Alive(t) == {p \in Pids : t[p].st \in {"run", "foreign"}}

\* the processes of D die; their children go to init
Die(t, D) ==
    LET dying == D \cap Alive(t)
    IN  [p \in Pids |->
            IF p \in dying THEN [t[p] EXCEPT !.st = "dead"]
            ELSE IF t[p].ppid \in dying THEN [t[p] EXCEPT !.ppid = OutPid]
            ELSE t[p]]

\* `ps -o pid= -o ppid= -A`: the rows <<pid, ppid>> of the tree's processes,
\* by pid. The root is listed while it is not reaped.
Exists(t, p) ==
    p \in Alive(t) \/ (p = RootPid /\ t[p].st = "dead" /\ ~reaped)

RECURSIVE PsRows(_, _)
PsRows(t, p) ==
    IF p > MaxPid THEN <<>>
    ELSE (IF Exists(t, p) THEN <<(<<p, t[p].ppid>>)>> ELSE <<>>)
             \o PsRows(t, p + 1)

\* children_map.get(current, []), lines 61-69
RECURSIVE children_map(_, _)
children_map(rows, current) ==
    IF rows = <<>> THEN <<>>
    ELSE (IF Head(rows)[2] = current THEN <<Head(rows)[1]>> ELSE <<>>)
             \o children_map(Tail(rows), current)

\* mutant of Visit: the loop without `to_visit.append(child)`, line 77
Visit_NoPush(rows, to_visit, descendants) ==
    IF to_visit = <<>> THEN descendants
    ELSE descendants \o children_map(rows, to_visit[Len(to_visit)])

\* the loop `while to_visit`, lines 71-77
RECURSIVE Visit(_, _, _)
Visit(rows, to_visit, descendants) ==
    IF to_visit = <<>> THEN descendants
    ELSE LET current == to_visit[Len(to_visit)]
             popped == SubSeq(to_visit, 1, Len(to_visit) - 1)
             children == children_map(rows, current)
         IN  Visit(rows, popped \o children, descendants \o children)

Descendants(rows, root_pid) == Visit(rows, <<root_pid>>, <<>>)

\* what the system call of a signal to pid p gives: ProcessLookupError when p
\* is gone, PermissionError when the kernel refuses, else delivery
Errno(t, p) ==
    IF ~Exists(t, p) THEN "ESRCH" ELSE IF denied THEN "EPERM" ELSE "ok"

\* one signal call: the kill_process_tree call of terminate() it belongs to,
\* the function, its target, whether the target is a descendant of the call's
\* snapshot, the processes it was delivered to, and its errno
Signal(fn, target, snap, reached, errno) ==
    [tcall |-> tcall, fn |-> fn, target |-> target, snap |-> snap,
     reached |-> reached, errno |-> errno]

\* mutant of Swallowed: no try around the calls of kill_process_tree
Swallowed_Never(fn) == FALSE

\* whether an exception of the call fn is caught: lines 87-89, 95-96 and
\* 100-101 catch Exception; line 183 catches TimeoutExpired only, which
\* self.proc.terminate() does not raise
Swallowed(fn) == fn \in {"killpg", "kill"}

\* the position after a signal call that gave errno, `on` when it went well
\* or its exception was caught
AfterSignal(fn, errno, on) ==
    IF errno = "ok" \/ Swallowed(fn) THEN on ELSE "raised"

\* where terminate() goes on when a kill_process_tree call returns
AfterKillTree ==
    IF tcall = "first" THEN "proc_terminate" ELSE "done"

\* a process of the tree starts a child, in its own group or a new one
Fork(p, c, own) ==
    /\ tpc # "off"
    /\ ptab[p].st = "run"
    /\ ptab[c].st = "free"
    /\ ptab' = [ptab EXCEPT ![c] =
                   [st |-> "run", ppid |-> p,
                    pgid |-> IF own THEN c ELSE ptab[p].pgid]]
    /\ UNCHANGED <<tcall, tpc, todo, sigs, reaped, denied, tcalls>>
    /\ UNCHANGED hostVars

\* a process of the tree exits by itself
Exit(p) ==
    /\ tpc # "off"
    /\ ptab[p].st = "run"
    /\ ptab' = Die(ptab, {p})
    /\ UNCHANGED <<tcall, tpc, todo, sigs, reaped, denied, tcalls>>
    /\ UNCHANGED hostVars

\* the system gives the pid of the reaped root to a new process that is not
\* of this bridge (the leader of its own group, as another bridge's subprocess
\* is); self.proc.pid keeps the number
Reuse ==
    /\ tpc # "off"
    /\ reaped
    /\ ptab[RootPid].st = "dead"
    /\ ptab' = [ptab EXCEPT ![RootPid] =
                   [st |-> "foreign", ppid |-> OutPid, pgid |-> RootPid]]
    /\ UNCHANGED <<tcall, tpc, todo, sigs, reaped, denied, tcalls>>
    /\ UNCHANGED hostVars

\* terminate() is called, line 176: self.proc.poll(), which reaps a dead root
Poll ==
    /\ tpc \in {"idle", "done", "raised"}
    /\ tcalls < MaxTerminates
    /\ tcalls' = tcalls + 1
    /\ tcall' = IF ptab[RootPid].st = "run" THEN "first" ELSE "stragglers"
    /\ reaped' = (ptab[RootPid].st # "run")
    /\ tpc' = "ps"
    /\ todo' = <<>>
    /\ sigs' = <<>>
    /\ UNCHANGED <<ptab, denied>>
    /\ UNCHANGED hostVars

\* kill_process_tree, lines 55-77: the snapshot and the descendants; when ps
\* fails the function returns
Ps(ok) ==
    /\ tpc = "ps"
    /\ IF ok
       THEN /\ todo' = Descendants(PsRows(ptab, RootPid), RootPid)
            /\ tpc' = "killpg"
       ELSE /\ todo' = <<>>
            /\ tpc' = AfterKillTree
    /\ UNCHANGED <<ptab, tcall, sigs, reaped, denied, tcalls>>
    /\ UNCHANGED hostVars

\* lines 83-89: os.killpg(os.getpgid(root_pid), SIGKILL); getpgid raises when
\* the root is gone
Killpg ==
    /\ tpc = "killpg"
    /\ LET pgid == ptab[RootPid].pgid
           errno == Errno(ptab, RootPid)
           reached == IF errno = "ok"
                      THEN {p \in Alive(ptab) : ptab[p].pgid = pgid} ELSE {}
       IN  /\ ptab' = Die(ptab, reached)
           /\ sigs' = Append(sigs, Signal("killpg", pgid, FALSE, reached, errno))
           /\ tpc' = AfterSignal("killpg", errno, "kill")
    /\ UNCHANGED <<tcall, todo, reaped, denied, tcalls>>
    /\ UNCHANGED hostVars

\* lines 92-96: os.kill(pid, SIGKILL) for the next pid of descendants
KillDescendant ==
    /\ tpc = "kill"
    /\ todo # <<>>
    /\ LET pid == Head(todo)
           errno == Errno(ptab, pid)
           reached == IF errno = "ok" THEN {pid} \cap Alive(ptab) ELSE {}
       IN  /\ ptab' = Die(ptab, reached)
           /\ sigs' = Append(sigs, Signal("kill", pid, TRUE, reached, errno))
           /\ tpc' = AfterSignal("kill", errno, "kill")
    /\ todo' = Tail(todo)
    /\ UNCHANGED <<tcall, reaped, denied, tcalls>>
    /\ UNCHANGED hostVars

\* lines 98-101: os.kill(root_pid, SIGKILL), and the return
KillRoot ==
    /\ tpc = "kill"
    /\ todo = <<>>
    /\ LET errno == Errno(ptab, RootPid)
           reached == IF errno = "ok" THEN {RootPid} \cap Alive(ptab) ELSE {}
       IN  /\ ptab' = Die(ptab, reached)
           /\ sigs' = Append(sigs, Signal("kill", RootPid, FALSE, reached, errno))
           /\ tpc' = AfterSignal("kill", errno, AfterKillTree)
    /\ UNCHANGED <<tcall, todo, reaped, denied, tcalls>>
    /\ UNCHANGED hostVars

\* terminate(), line 181: self.proc.terminate(): returncode is still None, so
\* os.kill(pid, SIGTERM); the root exits on it or handles it and goes on
ProcTerminate(exits) ==
    /\ tpc = "proc_terminate"
    /\ LET errno == Errno(ptab, RootPid)
           reached == IF errno = "ok" THEN {RootPid} \cap Alive(ptab) ELSE {}
       IN  /\ ptab' = IF exits THEN Die(ptab, reached) ELSE ptab
           /\ sigs' = Append(sigs, Signal("terminate", RootPid, FALSE, reached, errno))
           /\ tpc' = AfterSignal("terminate", errno, "wait")
    /\ UNCHANGED <<tcall, todo, reaped, denied, tcalls>>
    /\ UNCHANGED hostVars

\* terminate(), lines 182-184: self.proc.wait(timeout=2) returns when the
\* root is dead, and raises TimeoutExpired while it runs
Wait ==
    /\ tpc = "wait"
    /\ IF ptab[RootPid].st = "run"
       THEN /\ tcall' = "retry"
            /\ tpc' = "ps"
            /\ reaped' = reaped
       ELSE /\ tcall' = tcall
            /\ tpc' = "done"
            /\ reaped' = TRUE
    /\ UNCHANGED <<ptab, todo, sigs, denied, tcalls>>
    /\ UNCHANGED hostVars

\* terminate() of one bridge, step by step, while its process tree changes
InitKill ==
    /\ settings = "ok"
    /\ hasProject = [w \in Windows |-> TRUE]
    /\ NoSessions
    /\ NoSenders
    /\ phase = "loaded"
    /\ tickPending = 1
    /\ live = Windows
    /\ NoBridges
    /\ last = Off
    /\ ptab = [p \in Pids |->
                  IF p = RootPid
                  THEN [st |-> "run", ppid |-> OutPid, pgid |-> RootPid]
                  ELSE NoProc]
    /\ tcall = "none"
    /\ tpc = "idle"
    /\ todo = <<>>
    /\ sigs = <<>>
    /\ reaped = FALSE
    /\ denied \in BOOLEAN
    /\ tcalls = 0

NextKill ==
    \/ \E p, c \in Pids, own \in BOOLEAN : Fork(p, c, own)
    \/ \E p \in Pids : Exit(p)
    \/ Reuse
    \/ Poll
    \/ \E ok \in BOOLEAN : Ps(ok)
    \/ Killpg
    \/ KillDescendant
    \/ KillRoot
    \/ \E exits \in BOOLEAN : ProcTerminate(exits)
    \/ Wait

SpecKill == InitKill /\ [][NextKill]_vars

\* ================================================================ claims
\* C1: the registry holds at most one bridge per key: two distinct registered
\* keys hold two distinct bridges, each with a spawned subprocess of its own;
\* get_bridge with a registered key returns the stored bridge, changes no
\* registry entry and spawns nothing; get_bridge that creates stores a bridge
\* with a new subprocess under that key alone.
C1_OneBridgePerKey ==
    [][/\ \A k1, k2 \in Keys :
            (k1 # k2 /\ bridges'[k1] # 0 /\ bridges'[k2] # 0)
                => /\ bridges'[k1] # bridges'[k2]
                   /\ proc'[bridges'[k1]] # "none"
                   /\ proc'[bridges'[k2]] # "none"
       /\ (last'.op = "get_bridge" /\ bridges[last'.key] # 0)
            => (bridges' = bridges /\ nextBridge' = nextBridge /\ proc' = proc)
       /\ (last'.op = "get_bridge" /\ bridges[last'.key] = 0)
            => /\ \A k \in Keys \ {last'.key} : bridges'[k] = bridges[k]
               /\ bridges'[last'.key] \in {0, nextBridge}
               /\ nextBridge' \in {nextBridge, nextBridge + 1}
               /\ bridges'[last'.key] = nextBridge
                    => (proc[nextBridge] = "none" /\ proc'[nextBridge] # "none"
                        /\ nextBridge' = nextBridge + 1)
      ]_vars

\* get_bridge has just returned the stored bridge of a registered key, while
\* another key holds a bridge too
C1_Witness ==
    /\ last.op = "get_bridge"
    /\ last.ret = "reused"
    /\ \E k \in Keys \ {last.key} : bridges[k] # 0 /\ bridges[k] # bridges[last.key]

C7_SpawnedIsRegistered ==
    \A b \in BridgeIds :
        (proc[b] # "none" /\ terminated[b] = 0) => \E k \in Keys : bridges[k] = b

C2_RegisteredBeforeWrite ==
    \A b \in BridgeIds : \A i \in 1..Len(stdin[b]) :
        (stdin[b][i][1] = "user_input" /\ mainPc[1] = b /\ mainPc[2] = stdin[b][i][2])
            => \E c \in callbacks[b] : c[1] = stdin[b][i][2]

\* C3: when the reader takes a line whose id is registered and whose type is
\* assistant_message or agent_message, exactly one invocation of the callback
\* with that message is scheduled and the id leaves the table; a line whose
\* id is not in the table schedules nothing and changes no bridge state; a
\* scheduled invocation is run once, in its turn.
C3_TerminalReplyOnce ==
    [][/\ \A b \in BridgeIds :
            (stdout[b] # <<>> /\ stdout'[b] = Tail(stdout[b])) =>
                LET id == Head(stdout[b])[1]
                    ty == Head(stdout[b])[2]
                    reg == {c \in callbacks[b] : c[1] = id}
                IN  /\ (reg # {} /\ ty \in {"assistant_message", "agent_message"})
                        => /\ Len(timeouts') = Len(timeouts) + 1
                           /\ SubSeq(timeouts', 1, Len(timeouts)) = timeouts
                           /\ \E c \in reg :
                                 timeouts'[Len(timeouts')] = <<b, id, ty, c[2]>>
                           /\ callbacks' = [callbacks EXCEPT ![b] = @ \ reg]
                    /\ reg = {}
                        => /\ timeouts' = timeouts
                           /\ callbacks' = callbacks
                           /\ <<bridges, proc, reader, stdin, terminated, panels>>' =
                              <<bridges, proc, reader, stdin, terminated, panels>>
       /\ Len(timeouts') < Len(timeouts) => timeouts' = Tail(timeouts)
      ]_vars

\* a terminal reply was dispatched once and its id deregistered, and the other
\* emitted line was read without scheduling anything
C3_Witness ==
    \E b \in BridgeIds :
        /\ Len(timeouts) = 1
        /\ timeouts[1][1] = b
        /\ timeouts[1][3] \in {"assistant_message", "agent_message"}
        /\ callbacks[b] = {}
        /\ stdout[b] = <<>>
        /\ emitted = 2
        /\ mainPc = Idle
        /\ terminated[b] = 0

\* C4: when the reader takes a line whose id is registered and whose type is
\* not terminal (any other type, or none), one invocation is scheduled and the
\* id stays registered, however many such lines come; the first terminal one
\* after them schedules one more invocation and deregisters the id.
C4_NonTerminalKeepsCallback ==
    [][\A b \in BridgeIds :
          (stdout[b] # <<>> /\ stdout'[b] = Tail(stdout[b])) =>
              LET id == Head(stdout[b])[1]
                  ty == Head(stdout[b])[2]
                  reg == {c \in callbacks[b] : c[1] = id}
                  terminal == ty = "assistant_message" \/ ty = "agent_message"
              IN  reg # {} =>
                    /\ \E c \in reg : timeouts' = Append(timeouts, <<b, id, ty, c[2]>>)
                    /\ ~terminal => callbacks' = callbacks
                    /\ terminal => (\A c \in callbacks'[b] : c[1] # id)
      ]_vars

\* a non-terminal message and then a terminal one were dispatched for one id,
\* which is deregistered only now
C4_Witness ==
    \E b \in BridgeIds :
        /\ Len(timeouts) = 2
        /\ timeouts[1][1] = b /\ timeouts[2][1] = b
        /\ timeouts[1][2] = timeouts[2][2]
        /\ timeouts[1][3] \in {"agent_reasoning", "exec_approval_request", "none"}
        /\ timeouts[2][3] \in {"assistant_message", "agent_message"}
        /\ callbacks[b] = {}

\* C9: once terminate() was called on a bridge, none of its callbacks is
\* invoked: no scheduled invocation of a terminated bridge is run.
C9_NoCallbackAfterTerminate ==
    [][(timeouts # <<>> /\ timeouts' = Tail(timeouts))
          => terminated[Head(timeouts)[1]] = 0]_vars

\* C10: after a reset of window w and until the next prompt submitted in w,
\* the registry holds no bridge for w.
C10_NoBridgeAfterReset ==
    \A w \in Windows : resetPending[w] => bridges[w] = 0

\* ---------------------------------------------------- claims, processes
\* C5: in a terminate(), every SIGKILL to a descendant found in the snapshot
\* is issued no later than the first SIGKILL that reaches the root, whether
\* that one was sent to the root's pid or to its process group.
C5_DescendantsBeforeRoot ==
    \A i, j \in 1..Len(sigs) :
        (/\ sigs[i].fn = "kill" /\ sigs[i].snap
         /\ sigs[j].fn \in {"kill", "killpg"} /\ RootPid \in sigs[j].reached)
            => i < j

\* ------------------------------------------------------- claims, reader
\* C11: a line with no parsable JSON object (no '{', or text from the first
\* '{' that does not parse) schedules no callback, changes no entry of the
\* callback table and does not end the reader loop; a well-formed line for a
\* registered id is dispatched to its callback whatever lines came before it.
C11_MalformedLineSkipped ==
    [][\A b \in BridgeIds :
          (stdout[b] # <<>> /\ stdout'[b] = Tail(stdout[b])) =>
              LET line == Head(stdout[b])
                  reg == {c \in callbacks[b] : c[1] = line[1]}
              IN  /\ line[3] \in {"no_brace", "bad_json"} =>
                        /\ callbacks' = callbacks
                        /\ timeouts' = timeouts
                        /\ hist'.run = hist.run
                        /\ panels' = panels
                        /\ reader'[b] = "running"
                  /\ (line[3] = "json" /\ reg # {}) =>
                        /\ \E c \in reg :
                              timeouts' = Append(timeouts, <<b, line[1], line[2], c[2]>>)
                        /\ reader'[b] = "running"
      ]_vars

\* a malformed line was read and skipped, and a later well-formed line was
\* dispatched and its callback run
C11_Witness ==
    \E i, j \in 1..Len(hist.read) :
        /\ i < j
        /\ hist.read[i][5] \in {"no_brace", "bad_json"}
        /\ hist.read[j][5] = "json"
        /\ hist.read[j][4] # 0
        /\ \E k \in 1..Len(hist.run) :
               hist.run[k][1] = SubSeq(hist.read[j], 1, 4)

\* C12: terminate() on a bridge whose subprocess has already exited, a second
\* terminate() on the same bridge included, does not raise and does not wait
\* for the root, and sends no graceful signal: it makes the one pass of
\* kill_process_tree, whose failures are swallowed.
C12_TerminateOnDeadRoot ==
    tcall = "stragglers" =>
        /\ tpc \in {"ps", "killpg", "kill", "done"}
        /\ \A i \in 1..Len(sigs) : sigs[i].fn # "terminate"

\* a second terminate() on the bridge found the root dead, made its signal
\* calls and returned
C12_Witness ==
    /\ tcalls = 2
    /\ tcall = "stragglers"
    /\ tpc = "done"
    /\ Len(sigs) >= 2
    /\ \E i \in 1..Len(sigs) : sigs[i].errno = "ESRCH"

\* C13: terminate() returns normally for every outcome of its steps: a failed
\* snapshot, a signal to a vanished pid, a permission-denied signal, a failure
\* of the graceful signal to the root, the root outliving the wait.
C13_TerminateNeverRaises == tpc # "raised"

\* C14: every callback invocation runs on the main context as a scheduled
\* task: a reader step runs no callback, it puts one invocation per
\* dispatched message behind the scheduled ones; a callback is run only by the
\* step that takes the first scheduled invocation, on the main thread.
C14_CallbacksOnMainContext ==
    [][/\ \A b \in BridgeIds :
            (stdout[b] # <<>> /\ stdout'[b] = Tail(stdout[b])) =>
                /\ hist'.run = hist.run
                /\ panels' = panels
                /\ Len(hist'.read) = Len(hist.read) + 1
                /\ LET r == hist'.read[Len(hist'.read)]
                   IN  timeouts' = IF r[4] # 0
                                   THEN Append(timeouts, SubSeq(r, 1, 4))
                                   ELSE timeouts
       /\ hist'.run # hist.run =>
            /\ timeouts # <<>>
            /\ timeouts' = Tail(timeouts)
            /\ mainPc = <<0, 0, 0>>
            /\ hist'.run = Append(hist.run, <<Head(timeouts), "main">>)
      ]_vars

\* the reader dispatched two messages, the callback of the first has run on
\* the main thread and the second is still scheduled
C14_Witness ==
    /\ Len(hist.read) = 2
    /\ hist.read[1][4] # 0 /\ hist.read[2][4] # 0
    /\ hist.run = <<(<<SubSeq(hist.read[1], 1, 4), "main">>)>>
    /\ timeouts = <<SubSeq(hist.read[2], 1, 4)>>

\* C15: for each id of a bridge, the callback is run with the id's messages in
\* the order in which the reader read them: the messages run for the id are,
\* in order, the first of those the reader dispatched for it.
C15_PerIdWireOrder ==
    \A b \in BridgeIds : \A id \in 0..MaxSends :
        LET Of(t) == t[1] = b /\ t[2] = id
            OfRun(e) == Of(e[1])
            OfRead(r) == Of(r) /\ r[4] # 0
            ran == SelectSeq(hist.run, OfRun)
            read == SelectSeq(hist.read, OfRead)
        IN  /\ Len(ran) <= Len(read)
            /\ \A k \in 1..Len(ran) : ran[k][1] = SubSeq(read[k], 1, 4)

\* two messages of different types for one id were read and their callbacks
\* run, in the order read
C15_Witness ==
    /\ Len(hist.run) = 2
    /\ hist.run[1][1][1] = hist.run[2][1][1]
    /\ hist.run[1][1][2] = hist.run[2][1][2]
    /\ hist.run[1][1][3] # hist.run[2][1][3]
    /\ \E i, j \in 1..Len(hist.read) :
          /\ i < j
          /\ SubSeq(hist.read[i], 1, 4) = hist.run[1][1]
          /\ SubSeq(hist.read[j], 1, 4) = hist.run[2][1]

\* ------------------------------------------------------- claims, lock
\* C16: the write lock of a bridge is held only by a send() that is at its
\* write-and-flush step; it is free whenever a send() comes to take it and
\* whenever the main thread is in no send(), so also while a callback runs;
\* every send() that was called returns.
C16_SendFromCallbackCompletes ==
    /\ [](\A b \in BridgeIds :
            lock[b] => (mainPc[1] = b /\ snd.pc \in {"write", "release"}))
    /\ [](snd.pc = "acquire" => ~lock[mainPc[1]])
    /\ [](mainPc = <<0, 0, 0>> => \A b \in BridgeIds : ~lock[b])
    /\ (snd.pc = "acquire") ~> (snd.pc = "none")

\* the callback of an approval request has run, the user's choice was sent on
\* the same bridge and written to its live subprocess, and the main thread is
\* back in no send() with the lock free
C16_Witness ==
    \E b \in BridgeIds :
        /\ Len(stdin[b]) >= 3
        /\ stdin[b][3][1] = "exec_approval"
        /\ proc[b] = "running"
        /\ snd = NoSend
        /\ ~lock[b]

\* -------------------------------------------- claims, error handling
\* C17: with the credential missing, get_bridge for an unregistered key
\* raises, spawns no subprocess, starts no reader thread and leaves the
\* registry unchanged; every later get_bridge for a key that is still
\* unregistered constructs again: it raises again while the credential is
\* missing and registers a new bridge once the settings are in order.
C17_MissingCredential ==
    [][(last'.op = "get_bridge" /\ bridges[last'.key] = 0) =>
          /\ settings = "no_token" =>
                /\ last'.ret = "raised"
                /\ bridges' = bridges
                /\ nextBridge' = nextBridge
                /\ proc' = proc
                /\ reader' = reader
                /\ stdin' = stdin
          /\ settings = "ok" =>
                /\ last'.ret = "created"
                /\ bridges'[last'.key] = nextBridge
                /\ proc'[nextBridge] = "running"
      ]_vars

\* get_bridge has just raised for the missing credential: nothing is
\* registered under the key and no subprocess or reader exists
C17_Witness ==
    /\ last.op = "get_bridge"
    /\ last.ret = "raised"
    /\ settings = "no_token"
    /\ bridges[last.key] = 0
    /\ \A b \in BridgeIds : proc[b] = "none" /\ reader[b] = "none"

\* C18: when the write of a send() fails with a broken pipe, nothing is
\* written, send() returns without storing a callback and without raising,
\* and the bridge stays as it was: it keeps its registry entry, no subprocess
\* is spawned in its place, and a later get_bridge for the key returns that
\* same bridge; only a reset removes the entry.
C18_BrokenPipeLeavesBridge ==
    [][/\ (snd.pc = "write" /\ snd'.pc = "release" /\ snd'.broken) =>
            /\ stdin' = stdin
            /\ callbacks' = callbacks
            /\ <<bridges, nextBridge, proc, reader>>' =
               <<bridges, nextBridge, proc, reader>>
       /\ (snd.pc = "release" /\ snd.broken /\ snd' # snd) =>
            /\ snd'.pc = "none"
            /\ mainPc' = <<0, 0, 0>>
            /\ callbacks' = callbacks
            /\ <<bridges, nextBridge, proc, reader, stdin>>' =
               <<bridges, nextBridge, proc, reader, stdin>>
       /\ \A w \in Windows :
            (bridges[w] # 0 /\ proc[bridges[w]] = "exited") =>
                /\ bridges'[w] \in {bridges[w], 0}
                /\ bridges'[w] = 0 => terminated'[bridges[w]] = terminated[bridges[w]] + 1
                /\ proc'[bridges[w]] = "exited"
                /\ (snd.pc = "none" /\ snd'.pc = "acquire" /\ mainPc'[3] = w) =>
                      (mainPc'[1] = bridges[w] /\ nextBridge' = nextBridge)
      ]_vars

\* a send() with a callback on a registered bridge whose subprocess is dead
\* has hit the broken pipe: nothing was written, no callback is stored
C18_Witness ==
    /\ snd.pc = "release"
    /\ snd.broken
    /\ snd.cb
    /\ bridges[mainPc[3]] = mainPc[1]
    /\ proc[mainPc[1]] = "exited"
    /\ callbacks[mainPc[1]] = {}
    /\ \A i \in 1..Len(stdin[mainPc[1]]) : stdin[mainPc[1]][i][1] # "user_input"

\* C19: for every bridge that get_bridge returned, exactly one
\* configure_session request was written to its subprocess: it is the first
\* line written, and no later line is a configure_session.
C19_ConfiguredOnceFirst ==
    \A k \in Keys :
        bridges[k] # 0 =>
            LET written == stdin[bridges[k]]
            IN  /\ Len(written) >= 1
                /\ written[1][1] = "configure_session"
                /\ \A i \in 2..Len(written) : written[i][1] # "configure_session"

\* what a step leaves alone of the bridges registered under the keys that do
\* not hold bridge b: the registry entry, the correlation table, the write
\* lock and the liveness of the subprocess
OthersKept(b) ==
    \A k2 \in Keys :
        LET b2 == bridges[k2]
        IN  (b2 # NoBridge /\ b2 # b) =>
                /\ bridges'[k2] = b2
                /\ callbacks'[b2] = callbacks[b2]
                /\ lock'[b2] = lock[b2]
                /\ proc'[b2] = proc[b2]

C21_GracefulBeforeForceful ==
    \A j \in 1..Len(sigs) :
        (/\ sigs[j].tcall \in {"first", "retry"}
         /\ sigs[j].fn \in {"kill", "killpg"}
         /\ sigs[j].target = RootPid
         /\ ~sigs[j].snap)
            => /\ sigs[j].tcall = "retry"
               /\ \E i \in 1..(j - 1) : sigs[i].fn = "terminate"

\* C22: a terminate() that found the root alive has made two snapshot-and-kill
\* passes when it returns, the second after proc.terminate() and the wait,
\* also when the root exited within the wait.
C22_TwoPasses ==
    (tpc = "done" /\ tcall # "stragglers") => tcall = "retry"

\* the processes of table t that have a parent in S, and the closure of S
\* under it
ChildrenIn(t, S) == {p \in Pids : Exists(t, p) /\ t[p].ppid \in S}

RECURSIVE Reachable(_, _)
Reachable(t, S) ==
    IF ChildrenIn(t, S) \subseteq S THEN S
    ELSE Reachable(t, S \cup ChildrenIn(t, S))

\* C23: in each pass of kill_process_tree the list of descendants is complete
\* when the first signal is sent: the snapshot step sends no signal and leaves
\* exactly the processes reachable from the root through the snapshot's
\* parent-to-children relation, each once; the signalling steps that follow
\* only take pids off that list.
C23_DescendantsBeforeSignals ==
    [][/\ (tpc = "ps" /\ tpc' # "ps") => sigs' = sigs
       /\ (tpc = "ps" /\ tpc' = "killpg") =>
            /\ {todo'[i] : i \in 1..Len(todo')}
                   = Reachable(ptab, {RootPid}) \ {RootPid}
            /\ Len(todo') = Cardinality(Reachable(ptab, {RootPid}) \ {RootPid})
       /\ Len(sigs') > Len(sigs) =>
            /\ tpc \in {"killpg", "kill", "proc_terminate"}
            /\ (todo' = todo \/ (todo # <<>> /\ todo' = Tail(todo)))
      ]_vars

\* a snapshot that found a child and a grandchild of the root, before the
\* first signal of the pass
C23_Witness ==
    /\ tpc = "killpg"
    /\ Len(todo) = 2
    /\ \E p \in Pids : ptab[p].st = "run" /\ ptab[p].ppid \notin {OutPid, RootPid}
    /\ sigs = <<>>

\* C24: terminate() signals only the bridge's root, the group it leads and the
\* descendants of the root: no step of it kills or reaches a process that is
\* not of the bridge's tree, also when the root was reaped before the signals
\* are sent.
C24_SignalsOwnTreeOnly ==
    [][\A p \in Pids :
          ptab[p].st = "foreign" =>
              /\ ptab'[p].st = "foreign"
              /\ Len(sigs') > Len(sigs) => p \notin sigs'[Len(sigs')].reached
      ]_vars

\* C25: once the subprocess of a registered bridge has exited, no line that
\* the reader takes from then on schedules a callback, nothing more is written
\* to the bridge, its subprocess is not started again, and the registry keeps
\* the dead bridge under its key.
C25_NothingAfterExit ==
    [][\A k \in Keys :
          LET b == bridges[k]
          IN  (b # NoBridge /\ proc[b] = "exited") =>
                  /\ Len(stdout'[b]) < Len(stdout[b]) => timeouts' = timeouts
                  /\ stdin'[b] = stdin[b]
                  /\ proc'[b] = "exited"
                  /\ bridges'[k] = b
      ]_vars

\* C26: the reader loop of a bridge ends only at the end of the stream: it
\* leaves "running" only when the subprocess has exited and every line was
\* read, whatever the lines were.
C26_ReaderEndsOnlyAtEOF ==
    [][\A b \in BridgeIds :
          (reader[b] = "running" /\ reader'[b] # "running") =>
              (proc[b] = "exited" /\ stdout[b] = <<>>)
      ]_vars

\* C27: when the reader takes a grouped notification whose own id has no
\* callback and whose parent id has one, it schedules that callback with the
\* message.
C27_ParentIdFallback ==
    [][\A b \in BridgeIds :
          (stdout[b] # <<>> /\ stdout'[b] = Tail(stdout[b])
              /\ Head(stdout[b])[3] = "grouped") =>
              \A c \in callbacks[b] :
                  c[1] = Head(stdout[b])[1] =>
                      timeouts' = Append(timeouts,
                                         <<b, c[1], Head(stdout[b])[2], c[2]>>)
      ]_vars

\* C28: once plugin_loaded has run a watchdog tick is pending, and every tick
\* leaves exactly one successor pending, whatever its sweep did.
C28_TickAlwaysPending ==
    /\ phase = "loaded" => tickPending >= 1
    /\ last.op \in {"watchdog_tick", "watchdog_tick_raised"} => tickPending = 1

\* what a step made of the registry, the subprocesses and the terminate()
\* counts, and what a sweep of the keys ks that leaves the roots T alive makes
HeapAfter == <<bridges', nextBridge', proc', reader', stdin', terminated'>>
Swept(ks, T) ==
    LET h == PopAndTerminate(Heap, ks, T)
    IN  <<h.bridges, h.nextBridge, h.proc, h.reader, h.stdin, h.terminated>>

\* C29: in every state the immediate sweep does what a watchdog tick would do
\* and the tick what the sweep would do: the same keys removed, terminate()
\* on the same bridges; the sweep schedules nothing, the tick its successor.
C29_SweepEqualsTick ==
    [][/\ last'.op = "on_pre_close_sweep" =>
            /\ \E T \in SUBSET Running(StaleBridges) :
                   HeapAfter = Swept(StaleKeys(Heap, live), T)
            /\ tickPending' = tickPending
       /\ last'.op = "watchdog_tick" =>
            /\ \E T \in SUBSET Running(OrphanBridges) :
                   HeapAfter = Swept(OrphanKeys(Heap, live), T)
            /\ tickPending' = tickPending
      ]_vars

\* an immediate sweep has just removed the bridge of a closed window while
\* the '__global__' bridge and a live window's bridge stayed
C29_Witness ==
    /\ last.op = "on_pre_close_sweep"
    /\ last.ret = "swept"
    /\ bridges[GlobalKey] # NoBridge /\ terminated[bridges[GlobalKey]] = 0
    /\ \E w \in live : bridges[w] # NoBridge /\ terminated[bridges[w]] = 0
    /\ \E w \in Windows \ live : bridges[w] = NoBridge

\* C30: a close notification of the last view of window w removes and
\* terminates once the bridge of w and nothing else; with other views left
\* nothing changes; without a window only keys of closed windows are swept.
\* The bridge of another live window is never removed.
C30_CloseNotification ==
    [][/\ last'.op = "on_pre_close_last" =>
            /\ bridges' = [bridges EXCEPT ![last'.key] = NoBridge]
            /\ \A b \in BridgeIds :
                   terminated'[b] = terminated[b]
                       + (IF b = bridges[last'.key] THEN 1 ELSE 0)
            /\ \A b \in BridgeIds \ {bridges[last'.key]} : proc'[b] = proc[b]
       /\ last'.op = "on_pre_close_other" =>
            <<bridges, proc, terminated>>' = <<bridges, proc, terminated>>
       /\ last'.op = "on_pre_close_sweep" =>
            \A k \in Keys : bridges'[k] # bridges[k] => k \in Windows \ live
       /\ last'.op \in {"on_pre_close_last", "on_pre_close_other",
                        "on_pre_close_sweep"} =>
            \A k \in live \ {last'.key} : bridges'[k] = bridges[k]
      ]_vars

\* the last view of a live window was closed: its bridge is removed and was
\* terminated once, the bridge of the other live window stays
C30_Witness ==
    /\ last.op = "on_pre_close_last"
    /\ bridges[last.key] = NoBridge
    /\ \E b \in BridgeIds : terminated[b] = 1
    /\ \E w \in live \ {last.key} : bridges[w] # NoBridge /\ terminated[bridges[w]] = 0

C32_GlobalBridgeKept ==
    [][LET g == bridges[GlobalKey] IN
       /\ (last'.op = "get_bridge" /\ last'.key = GlobalKey
              /\ last'.ret # "raised") =>
            /\ bridges'[GlobalKey] # NoBridge
            /\ g # NoBridge => (bridges'[GlobalKey] = g /\ nextBridge' = nextBridge)
            /\ \A k \in Windows : bridges'[k] = bridges[k]
       /\ (last'.op \in {"plugin_loaded", "watchdog_tick", "reset",
                         "on_pre_close_sweep", "on_pre_close_last",
                         "on_pre_close_other"} /\ g # NoBridge) =>
            /\ bridges'[GlobalKey] = g
            /\ terminated'[g] = terminated[g]
            /\ proc'[g] = proc[g]
      ]_vars

\* every window is closed and a tick has swept their bridges: the bridge of
\* '__global__' is registered, running and was never terminated
C32_Witness ==
    /\ last.op = "watchdog_tick"
    /\ last.ret = "swept"
    /\ live = {}
    /\ bridges[GlobalKey] # NoBridge
    /\ proc[bridges[GlobalKey]] = "running"
    /\ terminated[bridges[GlobalKey]] = 0
    /\ \A w \in Windows : bridges[w] = NoBridge

\* the decision the agent is to get for an answer of the quick panel
Decision(answer) ==
    CASE answer = "yes" -> "approved"
      [] answer = "always_yes" -> "approved_for_session"
      [] answer = "no" -> "denied"
      [] answer = "abort_execution" -> "abort"
      [] answer = "dismissed" -> "denied"

\* the lines a step wrote to bridge b
Written(b) == SubSeq(stdin'[b], Len(stdin[b]) + 1, Len(stdin'[b]))

\* C33: the answer to the quick panel of an exec_approval_request, a
\* dismissal included, takes the panel away and sends one decision envelope
\* to the window's bridge: on a registered bridge with a live subprocess it
\* is the one line written, it names the id of the request event and carries
\* the decision of the answer (denied for a dismissal); no step writes a
\* second decision or writes to another bridge.
C33_ApprovalAnswered ==
    [][last'.op = "on_done" =>
          LET w == last'.key
              b == bridges'[w]
              envelope(p) == Line("exec_approval", SessionId, p[2],
                                  Decision(last'.ret))
          IN  \E p \in panels :
                /\ p[1] = w
                /\ panels' = panels \ {p}
                /\ Decision(last'.ret) \in
                       {"approved", "approved_for_session", "denied", "abort"}
                /\ \A c \in BridgeIds \ {b} : stdin'[c] = stdin[c]
                /\ (bridges[w] # NoBridge /\ proc[bridges[w]] = "running") =>
                       (b = bridges[w] /\ Written(b) = <<envelope(p)>>)
                /\ b # NoBridge =>
                       \A i \in 1..Len(Written(b)) :
                           Written(b)[i][1] = "exec_approval" =>
                               (i = Len(Written(b)) /\ Written(b)[i] = envelope(p))
      ]_vars

\* the panel of an approval request was dismissed and the bridge that asked,
\* still registered and running, got the decision denied for that request
C33_Witness ==
    /\ last.op = "on_done"
    /\ last.ret = "dismissed"
    /\ LET b == bridges[last.key]
       IN  /\ b # NoBridge
           /\ proc[b] = "running"
           /\ stdin[b][Len(stdin[b])][1] = "exec_approval"
           /\ stdin[b][Len(stdin[b])][4] = "denied"
           /\ \E i \in 1..Len(stdin[b]) :
                  /\ stdin[b][i][1] = "user_input"
                  /\ stdin[b][i][2] = stdin[b][Len(stdin[b])][3]

\* --------------------------------------------------------- session ids
\* The session ids of the bridges of two windows: project data that may hold
\* an id stored by an earlier run of the host (PriorUuid), bridges made by
\* get_bridge, removed by a reset or by the close of the
\* window's last view.
PriorUuid(w) == MaxBridges + 1 + w

InitSession ==
    /\ settings = "ok"
    /\ hasProject \in [Windows -> BOOLEAN]
    /\ pdata \in [Windows -> {NoStored} \cup {PriorUuid(w) : w \in Windows}]
    /\ \A w \in Windows : pdata[w] \in {NoStored, PriorUuid(w)}
    /\ \A w \in Windows : ~hasProject[w] => pdata[w] = NoStored
    /\ session = [b \in BridgeIds |-> NoStored]
    /\ nextSess = 1
    /\ NoSenders
    /\ phase = "loaded"
    /\ tickPending = 1
    /\ live = Windows
    /\ NoBridges
    /\ NoTerminate
    /\ last = [op |-> "init", key |-> 0, ret |-> ""]

NextSession ==
    \/ \E key \in Keys : GetBridge(key)
    \/ \E w \in Windows : Reset(w)
    \/ \E w \in Windows : OnPreClose(w, "last_view")

SpecSession == InitSession /\ [][NextSession]_vars

\* the step constructs a bridge for key k
ConstructedFor(k) == bridges[k] = NoBridge /\ bridges'[k] # NoBridge

\* C34: a bridge constructed for a window with project data takes as its
\* session id, the id of its configure_session request, the id stored in the
\* window's project data, and only when none is stored a newly generated one,
\* which it stores; a reset of the window clears the stored id, so that the
\* next bridge generates one.
C34_StoredSessionId ==
    [][\A w \in Windows : hasProject[w] =>
        /\ ConstructedFor(w) =>
              /\ session'[bridges'[w]] = pdata'[w]
              /\ pdata[w] # NoStored => session'[bridges'[w]] = pdata[w]
              /\ pdata[w] = NoStored => session'[bridges'[w]] = nextSess
        /\ last'.op = "reset" /\ last'.key = w => pdata'[w] = NoStored]_vars

\* ------------------------------------------------ concurrent calls of send
\* mutant of CanAcquire: `with self._lock` does not wait for the lock
CanAcquire_Always(held) == TRUE

\* threading.Lock: `with self._lock` (line 195) goes on when the lock is free
CanAcquire(held) == ~held

\* a thread calls send(obj): json.dumps, line 194
SendCall(t) ==
    /\ thr[t].pc = "idle"
    /\ thr[t].sent <= MaxSends
    /\ thr' = [thr EXCEPT ![t] = [pc |-> "acquire", sent |-> @.sent + 1,
                                  broken |-> FALSE]]
    /\ UNCHANGED <<pipe, lock>>
    /\ UNCHANGED <<hostVarsButLock, killVars>>

\* line 195: the lock is taken
SendAcquire(t) ==
    /\ thr[t].pc = "acquire"
    /\ CanAcquire(lock[SendBridge])
    /\ lock' = [lock EXCEPT ![SendBridge] = TRUE]
    /\ thr' = [thr EXCEPT ![t].pc = "write"]
    /\ UNCHANGED pipe
    /\ UNCHANGED <<hostVarsButLock, killVars>>

\* line 199: self.proc.stdin.write(line), or BrokenPipeError and the return
\* of line 203
SendWrite(t) ==
    /\ thr[t].pc = "write"
    /\ IF BrokenPipe(Heap, SendBridge)
       THEN /\ thr' = [thr EXCEPT ![t].pc = "release", ![t].broken = TRUE]
            /\ UNCHANGED pipe
       ELSE /\ thr' = [thr EXCEPT ![t].pc = "flush"]
            /\ pipe' = Append(pipe, <<t, thr[t].sent, "head">>)
    /\ UNCHANGED lock
    /\ UNCHANGED <<hostVarsButLock, killVars>>

\* line 200: self.proc.stdin.flush(), or BrokenPipeError and the return
SendFlush(t) ==
    /\ thr[t].pc = "flush"
    /\ IF BrokenPipe(Heap, SendBridge)
       THEN /\ thr' = [thr EXCEPT ![t].pc = "release", ![t].broken = TRUE]
            /\ UNCHANGED pipe
       ELSE /\ thr' = [thr EXCEPT ![t].pc = "release"]
            /\ pipe' = Append(pipe, <<t, thr[t].sent, "tail">>)
    /\ UNCHANGED lock
    /\ UNCHANGED <<hostVarsButLock, killVars>>

\* the with block is left, by its end or by the return; send() returns
SendRelease(t) ==
    /\ thr[t].pc = "release"
    /\ lock' = [lock EXCEPT ![SendBridge] = LockAfterWith(thr[t].broken)]
    /\ thr' = [thr EXCEPT ![t].pc = "idle"]
    /\ UNCHANGED pipe
    /\ UNCHANGED <<hostVarsButLock, killVars>>

\* One bridge, constructed and configured, its subprocess running, and the
\* threads outside send().
InitSenders ==
    /\ settings = "ok"
    /\ hasProject = [w \in Windows |-> TRUE]
    /\ NoSessions
    /\ NoSenders
    /\ phase = "loaded"
    /\ tickPending = 1
    /\ live = {ChanWindow}
    /\ bridges = [k \in Keys |-> IF k = ChanWindow THEN SendBridge ELSE NoBridge]
    /\ nextBridge = SendBridge + 1
    /\ proc = [b \in BridgeIds |-> IF b = SendBridge THEN "running" ELSE "none"]
    /\ reader = [b \in BridgeIds |-> IF b = SendBridge THEN "running" ELSE "none"]
    /\ callbacks = [b \in BridgeIds |-> {}]
    /\ stdin = [b \in BridgeIds |->
                   IF b = SendBridge
                   THEN <<Line("configure_session", SessionId, 0, "")>>
                   ELSE <<>>]
    /\ stdout = [b \in BridgeIds |-> <<>>]
    /\ terminated = [b \in BridgeIds |-> 0]
    /\ timeouts = <<>>
    /\ panels = {}
    /\ mainPc = Idle
    /\ nextMsg = 1
    /\ emitted = 0
    /\ resetPending = [w \in Windows |-> FALSE]
    /\ hist = NoHist
    /\ lock = [b \in BridgeIds |-> FALSE]
    /\ snd = NoSend
    /\ NoTerminate
    /\ last = Off

NextSenders ==
    \/ \E t \in Threads : SendCall(t)
    \/ \E t \in Threads : SendAcquire(t)
    \/ \E t \in Threads : SendWrite(t)
    \/ \E t \in Threads : SendFlush(t)
    \/ \E t \in Threads : SendRelease(t)
    \/ ProcExit(SendBridge)

SpecSenders == InitSenders /\ [][NextSenders]_vars

\* the threads between taking the lock and leaving the with block
Inside == {t \in Threads : thr[t].pc \in {"write", "flush", "release"}}

\* the pieces of every envelope are next to each other in the pipe, head
\* first
WholeLines ==
    \A i \in 1..Len(pipe) :
        pipe[i][3] = "tail" =>
            /\ i > 1
            /\ pipe[i-1] = <<pipe[i][1], pipe[i][2], "head">>

\* a head is followed by nothing but its tail
HeadsLast ==
    \A i \in 1..Len(pipe) :
        (pipe[i][3] = "head" /\ i < Len(pipe)) =>
            pipe[i+1] = <<pipe[i][1], pipe[i][2], "tail">>

\* C35: with several threads in send() on one bridge, at most one of them is
\* between taking the lock and leaving the with block, so that the pieces of
\* an envelope are never separated by those of another one, and the lock is
\* held exactly while a thread is there: it is free after every send, also
\* one that ended with a broken pipe.
C35_SendsDoNotOverlap ==
    /\ Cardinality(Inside) <= 1
    /\ WholeLines
    /\ HeadsLast
    /\ lock[SendBridge] <=> Inside # {}

\* both threads have sent, one envelope arrived whole, a later send met the
\* broken pipe, and the lock is free
C35_Witness ==
    /\ \A t \in Threads : thr[t].pc = "idle" /\ thr[t].sent > 0
    /\ \E t \in Threads : thr[t].broken
    /\ Len(pipe) >= 2
    /\ ~lock[SendBridge]

====
